---------------------------- MODULE Spec2Model ----------------------------
(***************************************************************************)
(* The concurrent, rate-limited summary pipeline of                        *)
(* src/modules/summary_generator.py: the ApiRateLimiter (interval lock,    *)
(* rate_limit_event, retrier election), handle_429_error, and              *)
(* SummaryGenerator.generate_summary / process_file / process_directory.   *)
(*                                                                         *)
(* Threads are the worker threads of the ThreadPoolExecutor; a thread's id *)
(* (threading.get_ident()) is its index.  Time is discrete, one unit = 1 s.*)
(* The limiter's last_call_time is kept relative to the clock, as the      *)
(* source's local time_since_last_call = time.time() - last_call_time,     *)
(* saturated at the interval (only "< interval" is ever asked of it).      *)
(* A limiter method that holds a lock, sleeps or blocks across a context   *)
(* switch is several steps: pc[w] stays at the call site and op[w] is the  *)
(* position inside the method.                                             *)
(***************************************************************************)
EXTENDS Integers, Sequences, FiniteSets, TLC

\* ------------------------------------------------------------- bounds
\* threads of the pool (max_workers)
NumWorkers == 3
\* stands for self.max_retries (10 in the source): the attempt ceiling
MaxRetries == 2
\* 429 answers one thread gets in the three-thread scenario
MaxRateLimited == 1

\* ------------------------------------------------- program constants
\* self.retry_delay = 2.0
RetryDelay == 2
\* self.api_call_interval = 1
ApiCallInterval == 1
\* self.retrier_id = None: no thread
NoThread == 0

Workers == 1..NumWorkers
\* line 289-294: the .json files os.walk finds, in the order they are submitted
file_paths == <<1, 2>>
Items == {file_paths[k] : k \in DOMAIN file_paths}

\* a field that the JSON object does not have
Absent == "<absent>"
\* the JSON object of an item file; NoData: no object (nothing read), and,
\* for a path, no file there
NoData == [summary |-> Absent, content |-> Absent, title |-> Absent]
OldSummary == "old summary"
NewSummary == "new summary"
\* the files process_directory can find: with a summary, with content only,
\* with an empty summary and empty content, with neither field
\* A file is its JSON object and the layout of its text (fmt): "compact" as
\* found, "indent2" as json.dump(..., indent=2) writes it.
FileKinds ==
    { [summary |-> OldSummary, content |-> "text", title |-> "t", fmt |-> "compact"],
      [summary |-> Absent, content |-> "text", title |-> "t", fmt |-> "compact"],
      [summary |-> "", content |-> "", title |-> "t", fmt |-> "compact"],
      [summary |-> Absent, content |-> Absent, title |-> "t", fmt |-> "compact"] }

\* line 258: a file opened with 'w' and not, or not completely, written
Truncated ==
    [summary |-> Absent, content |-> Absent, title |-> Absent, fmt |-> "truncated"]

\* line 232: json.load(f): the object, whatever the layout of the text
Load(f) == [summary |-> f.summary, content |-> f.content, title |-> f.title]

\* line 259: json.dump(data, f, ensure_ascii=False, indent=2)
Dump(d) ==
    [summary |-> d.summary, content |-> d.content, title |-> d.title,
     fmt |-> "indent2"]

\* line 255 writing an object that holds the summary alone
Updated_SummaryOnly(d, s) == [NoData EXCEPT !.summary = s]

\* line 255: data['summary'] = summary
Updated(d, s) == [d EXCEPT !.summary = s]

\* a work queue that hands out its first task without removing it
Remaining_Same(q) == q

\* the executor's work queue after its first task was taken
Remaining(q) == Tail(q)

\* retval[w] of a free client: the method it called last and what it returned
NoValue == <<"none", "None">>

\* what the remote endpoint can answer to one chat.completions.create call
Responses == {"Summary", "Blank", "Malformed", "RateLimited", "Error"}

VARIABLES
    \* ApiRateLimiter
    time_since_last_call, interval_lock, rate_limit_event, waiters,
    retrier_lock, retrier_id,
    \* per thread: position, limiter method in progress, sleep timer, locals
    pc, op, slp, current_retrier, retval,
    is_429_retrier, attempt, summary, gs_result,
    \* history: threads whose wait at line 152 timed out, and the number of
    \* requests of the current invocation (counted up to max_retries + 1)
    timed_out, calls,
    \* process_file / process_directory
    item, data, queue, future, results, main_pc, file, temp, file0

limiterVars == <<time_since_last_call, interval_lock, rate_limit_event, waiters,
                 retrier_lock, retrier_id>>
callVars == <<pc, op, slp, current_retrier, retval>>
gsVars == <<is_429_retrier, attempt, summary, gs_result, calls>>
poolVars == <<item, data, queue, future, results, main_pc, file, temp, file0>>
vars == <<limiterVars, callVars, gsVars, timed_out, poolVars>>

\* ------------------------------------------------------------ Init
InitLimiter ==
    /\ time_since_last_call = ApiCallInterval
    /\ interval_lock = NoThread
    /\ rate_limit_event = TRUE
    /\ waiters = {}
    /\ retrier_lock = NoThread
    /\ retrier_id = NoThread

InitLocals(start) ==
    /\ pc = [w \in Workers |-> start]
    /\ op = [w \in Workers |-> "none"]
    /\ slp = [w \in Workers |-> 0]
    /\ current_retrier = [w \in Workers |-> NoThread]
    /\ retval = [w \in Workers |-> NoValue]
    /\ is_429_retrier = [w \in Workers |-> FALSE]
    /\ attempt = [w \in Workers |-> 0]
    /\ summary = [w \in Workers |-> ""]
    /\ gs_result = [w \in Workers |-> "none"]
    /\ timed_out = {}
    /\ calls = [w \in Workers |-> 0]
    /\ item = [w \in Workers |-> 0]
    /\ data = [w \in Workers |-> NoData]

\* process_directory after os.walk and the submits: every file queued
Init ==
    /\ InitLimiter
    /\ InitLocals("idle")
    /\ queue = file_paths
    /\ future = [i \in Items |-> "queued"]
    /\ results = [total |-> Len(file_paths), success |-> 0, failed |-> 0]
    /\ main_pc = "collect"
    /\ file \in [Items -> FileKinds]
    /\ temp = [i \in Items |-> NoData]
    /\ file0 = file

\* ------------------------------------------------------------ helpers
is_rate_limited == ~rate_limit_event

Min(a, b) == IF a < b THEN a ELSE b

Bool(b) == IF b THEN "True" ELSE "False"

\* line 175 without .strip(): blank content is kept as it came
Strip_Raw(r) == IF r = "Summary" THEN NewSummary ELSE " "

\* str.strip() of the message content of a well-formed response
Strip(r) == IF r = "Summary" THEN NewSummary ELSE ""

\* line 235 never true
HasSummary_Never(d) == FALSE

\* line 239 never true: every object taken to have content
HasContent_Always(d) == TRUE

\* line 235: 'summary' in data and data['summary']
HasSummary(d) == d.summary # Absent /\ d.summary # ""

\* line 239: not ('content' not in data or not data['content'])
HasContent(d) == d.content # Absent /\ d.content # ""


\* ------------------------------------------------ calls and returns
\* where each limiter method is called from; the "api_" sites are those of a
\* free client of the limiter (specification SpecLimiter), which may call any
\* method with its own thread id
SitesWI == {"gs_L145", "api_wi"}
SitesGRI == {"gs_L148", "gs_L159b"}
SitesWR == {"gs_L152", "h429_L105", "api_wr"}
SitesTBR == {"h429_L96", "api_tbr"}
SitesRRL == {"gs_L181", "gs_L216", "api_rrl"}
ClientSites == {"api_wi", "api_wr", "api_tbr", "api_rrl"}

Calls(w, sites) == pc[w] \in sites /\ op[w] = "none"

\* What the caller at pc[w] does with the value val returned by method fn:
\* its next position, current_retrier, sleep timer and (for a free client)
\* the recorded return value.
After(w, fn, val) ==
    LET go(p) == [pc |-> p, cr |-> NoThread, slp |-> 0, rv |-> NoValue]
    IN  CASE pc[w] \in ClientSites ->
               [pc |-> "api", cr |-> NoThread, slp |-> 0,
                rv |-> <<fn, IF fn = "wi" THEN "None" ELSE Bool(val)>>]
          \* line 145 -> line 148
          [] pc[w] = "gs_L145" -> go("gs_L148")
          \* line 148: current_retrier = rate_limiter.get_retrier_id()
          [] pc[w] = "gs_L148" ->
               [pc |-> "gs_L149", cr |-> val, slp |-> 0, rv |-> NoValue]
          \* lines 152-155: warning on timeout, then continue
          [] pc[w] = "gs_L152" -> go(IF val THEN "gs_L145" ELSE "gs_L154")
          \* line 159, second conjunct; line 162 continue
          [] pc[w] = "gs_L159b" -> go(IF val # w THEN "gs_L145" ELSE "gs_L167")
          \* line 181 -> line 182
          [] pc[w] = "gs_L181" -> go("gs_L182")
          \* line 216, then the function returns to process_file line 248
          [] pc[w] = "gs_L216" -> go("pf_L250")
          \* lines 96-100: the retrier sleeps retry_delay; line 105 otherwise
          [] pc[w] = "h429_L96" ->
               IF val THEN [pc |-> "h429_L100", cr |-> NoThread,
                            slp |-> RetryDelay, rv |-> NoValue]
                      ELSE go("h429_L105")
          \* lines 105-108 return False; line 197 continue
          [] pc[w] = "h429_L105" -> go("gs_L145")

Return(w, fn, val) ==
    LET r == After(w, fn, val)
    IN  /\ pc' = [pc EXCEPT ![w] = r.pc]
        /\ op' = [op EXCEPT ![w] = "none"]
        /\ slp' = [slp EXCEPT ![w] = r.slp]
        /\ current_retrier' = [current_retrier EXCEPT ![w] = r.cr]
        /\ retval' = [retval EXCEPT ![w] = r.rv]

\* the method goes on inside itself at position p
Inside(w, p) ==
    /\ op' = [op EXCEPT ![w] = p]
    /\ UNCHANGED <<pc, current_retrier, retval>>

\* ------------------------------------------------- ApiRateLimiter
\* line 43: if time_since_last_call < interval
NeedsWait == time_since_last_call < ApiCallInterval
\* line 44: wait_time = interval - time_since_last_call
WaitTime == ApiCallInterval - time_since_last_call

\* wait_for_interval as it would be without "with self.interval_lock"
WaitForInterval_NoLock(w) ==
    /\ Calls(w, SitesWI)
    /\ IF NeedsWait
         THEN /\ slp' = [slp EXCEPT ![w] = WaitTime]
              /\ Inside(w, "wi_L47")
              /\ UNCHANGED time_since_last_call
         ELSE /\ time_since_last_call' = 0
              /\ Return(w, "wi", TRUE)
    /\ UNCHANGED <<interval_lock, rate_limit_event, waiters, retrier_lock, retrier_id>>
    /\ UNCHANGED <<gsVars, timed_out, poolVars>>

\* wait_for_interval, lines 39-50 when no sleep is needed; lines 39-47 when
\* it is: the thread then sleeps holding interval_lock
WaitForInterval(w) ==
    /\ Calls(w, SitesWI)
    /\ interval_lock = NoThread
    /\ IF NeedsWait
         THEN /\ interval_lock' = w
              /\ slp' = [slp EXCEPT ![w] = WaitTime]
              /\ Inside(w, "wi_L47")
              /\ UNCHANGED time_since_last_call
         ELSE /\ time_since_last_call' = 0
              /\ Return(w, "wi", TRUE)
              /\ UNCHANGED interval_lock
    /\ UNCHANGED <<rate_limit_event, waiters, retrier_lock, retrier_id>>
    /\ UNCHANGED <<gsVars, timed_out, poolVars>>

\* lines 47-50 leaving the with block without giving interval_lock back
WaitForIntervalWake_KeepLock(w) ==
    /\ op[w] = "wi_L47"
    /\ slp[w] = 0
    /\ time_since_last_call' = 0
    /\ Return(w, "wi", TRUE)
    /\ UNCHANGED <<interval_lock, rate_limit_event, waiters, retrier_lock, retrier_id>>
    /\ UNCHANGED <<gsVars, timed_out, poolVars>>

\* lines 47-50: the sleep is over; last_call_time = time.time(); unlock
WaitForIntervalWake(w) ==
    /\ op[w] = "wi_L47"
    /\ slp[w] = 0
    /\ time_since_last_call' = 0
    /\ interval_lock' = NoThread
    /\ Return(w, "wi", TRUE)
    /\ UNCHANGED <<rate_limit_event, waiters, retrier_lock, retrier_id>>
    /\ UNCHANGED <<gsVars, timed_out, poolVars>>

\* get_retrier_id, lines 68-69
GetRetrierId(w) ==
    /\ Calls(w, SitesGRI)
    /\ retrier_lock = NoThread
    /\ Return(w, "gri", retrier_id)
    /\ UNCHANGED <<limiterVars, gsVars, timed_out, poolVars>>

\* line 54 with the test inverted
MustWait_Inverted == rate_limit_event

\* line 54: if not self.rate_limit_event.is_set(), and Event.wait's own test
MustWait == ~rate_limit_event

\* wait_for_rate_limit_release, lines 54-60: return True at once, or block
\* in rate_limit_event.wait(timeout) as one of the event's waiters
WaitForRelease(w) ==
    /\ Calls(w, SitesWR)
    /\ IF MustWait
         THEN /\ waiters' = waiters \cup {w}
              /\ Inside(w, "wr_L59")
              /\ UNCHANGED slp
         ELSE /\ Return(w, "wr", TRUE)
              /\ UNCHANGED waiters
    /\ UNCHANGED <<time_since_last_call, interval_lock, rate_limit_event,
                   retrier_lock, retrier_id>>
    /\ UNCHANGED <<gsVars, timed_out, poolVars>>

\* line 59: the event was set while the thread was blocked: wait returns True
WaitForReleaseWoken(w) ==
    /\ op[w] = "wr_L59"
    /\ w \notin waiters
    /\ Return(w, "wr", TRUE)
    /\ UNCHANGED <<limiterVars, gsVars, timed_out, poolVars>>

\* line 59: the timeout elapsed before any set(): wait returns False
WaitForReleaseTimeout(w) ==
    /\ op[w] = "wr_L59"
    /\ w \in waiters
    /\ waiters' = waiters \ {w}
    /\ Return(w, "wr", FALSE)
    /\ timed_out' = IF pc[w] = "gs_L152" THEN timed_out \cup {w} ELSE timed_out
    /\ UNCHANGED <<time_since_last_call, interval_lock, rate_limit_event,
                   retrier_lock, retrier_id>>
    /\ UNCHANGED <<gsVars, poolVars>>

\* line 74 without its test: whoever asks is made the retrier
MayBecomeRetrier_Always == TRUE

\* line 74 letting a caller take over from the recorded retrier
MayBecomeRetrier_Takeover == ~is_rate_limited \/ retrier_id # NoThread

\* line 74: if not self.is_rate_limited()
MayBecomeRetrier == ~is_rate_limited

\* line 79 true for every caller
AlreadyRetrier_Everyone(id) == TRUE

\* line 79 never true
AlreadyRetrier_Nobody(id) == FALSE

\* line 79 as "someone is the retrier"
AlreadyRetrier_Anyone(id) == retrier_id # NoThread

\* line 79: return self.retrier_id == thread_id
AlreadyRetrier(id) == retrier_id = id

\* try_become_retrier, lines 73-75 (the event is cleared, the lock kept) or
\* lines 73-79 (already rate limited)
TryBecomeRetrier(w) ==
    /\ Calls(w, SitesTBR)
    /\ retrier_lock = NoThread
    /\ IF MayBecomeRetrier
         THEN /\ rate_limit_event' = FALSE
              /\ retrier_lock' = w
              /\ Inside(w, "tbr_L76")
              /\ UNCHANGED slp
         ELSE /\ Return(w, "tbr", AlreadyRetrier(w))
              /\ UNCHANGED <<rate_limit_event, retrier_lock>>
    /\ UNCHANGED <<time_since_last_call, interval_lock, waiters, retrier_id>>
    /\ UNCHANGED <<gsVars, timed_out, poolVars>>

\* lines 76-77: self.retrier_id = thread_id; return True; unlock
TryBecomeRetrierSetId(w) ==
    /\ op[w] = "tbr_L76"
    /\ retrier_id' = w
    /\ retrier_lock' = NoThread
    /\ Return(w, "tbr", TRUE)
    /\ UNCHANGED <<time_since_last_call, interval_lock, rate_limit_event, waiters>>
    /\ UNCHANGED <<gsVars, timed_out, poolVars>>

\* line 84 without the test of the caller's id
MayRelease_AnyCaller(id) == is_rate_limited

\* line 84: if self.is_rate_limited() and self.retrier_id == thread_id
MayRelease(id) == is_rate_limited /\ retrier_id = id

\* release_rate_limit, lines 83-85 (retrier_id cleared, the lock kept) or
\* lines 83-88 (return False)
ReleaseRateLimit(w) ==
    /\ Calls(w, SitesRRL)
    /\ retrier_lock = NoThread
    /\ IF MayRelease(w)
         THEN /\ retrier_id' = NoThread
              /\ retrier_lock' = w
              /\ Inside(w, "rrl_L86")
              /\ UNCHANGED slp
         ELSE /\ Return(w, "rrl", FALSE)
              /\ UNCHANGED <<retrier_id, retrier_lock>>
    /\ UNCHANGED <<time_since_last_call, interval_lock, rate_limit_event, waiters>>
    /\ UNCHANGED <<gsVars, timed_out, poolVars>>

\* an Event.set() that wakes nobody
Notified_Nobody(ws) == ws

\* Event.set(): notify_all leaves the given set of waiters blocked (none)
Notified(ws) == {}

\* lines 86-87 without the set(): the event stays cleared
ReleaseRateLimitSet_NoSet(w) ==
    /\ op[w] = "rrl_L86"
    /\ retrier_lock' = NoThread
    /\ Return(w, "rrl", TRUE)
    /\ UNCHANGED <<time_since_last_call, interval_lock, rate_limit_event,
                   waiters, retrier_id>>
    /\ UNCHANGED <<gsVars, timed_out, poolVars>>

\* lines 86-87: self.rate_limit_event.set(); return True; unlock
ReleaseRateLimitSet(w) ==
    /\ op[w] = "rrl_L86"
    /\ rate_limit_event' = TRUE
    /\ waiters' = Notified(waiters)
    /\ retrier_lock' = NoThread
    /\ Return(w, "rrl", TRUE)
    /\ UNCHANGED <<time_since_last_call, interval_lock, retrier_id>>
    /\ UNCHANGED <<gsVars, timed_out, poolVars>>

\* one second passes: sleeps get shorter, the last call gets older
Tick ==
    /\ slp' = [w \in Workers |-> IF slp[w] > 0 THEN slp[w] - 1 ELSE 0]
    /\ time_since_last_call' = Min(time_since_last_call + 1, ApiCallInterval)
    /\ UNCHANGED <<interval_lock, rate_limit_event, waiters, retrier_lock, retrier_id>>
    /\ UNCHANGED <<pc, op, current_retrier, retval, gsVars, timed_out, poolVars>>

\* ------------------------------------------------ generate_summary
\* a step of thread w that is no limiter call: w moves to p
Goto(w, p) ==
    /\ pc' = [pc EXCEPT ![w] = p]
    /\ UNCHANGED <<op, current_retrier, retval>>

\* line 149 without its second conjunct: the retrier waits like the others
GS_CheckLimited_IgnoreRetrier(w) ==
    /\ pc[w] = "gs_L149"
    /\ pc' = [pc EXCEPT ![w] = IF is_rate_limited THEN "gs_L152" ELSE "gs_L159"]
    /\ current_retrier' = [current_retrier EXCEPT ![w] = NoThread]
    /\ UNCHANGED <<op, slp, retval, limiterVars, gsVars, timed_out, poolVars>>

\* line 149: if rate_limiter.is_rate_limited() and current_thread_id != current_retrier
\* (is_rate_limited reads the event without retrier_lock)
GS_CheckLimited(w) ==
    /\ pc[w] = "gs_L149"
    /\ pc' = [pc EXCEPT ![w] =
                IF is_rate_limited /\ w # current_retrier[w]
                  THEN "gs_L152" ELSE "gs_L159"]
    /\ current_retrier' = [current_retrier EXCEPT ![w] = NoThread]
    /\ UNCHANGED <<op, slp, retval, limiterVars, gsVars, timed_out, poolVars>>

\* lines 153-155: not wait_success: the warning, then continue
GS_WaitTimedOut(w) ==
    /\ pc[w] = "gs_L154"
    /\ Goto(w, "gs_L145")
    /\ UNCHANGED <<slp, limiterVars, gsVars, timed_out, poolVars>>

\* line 159 without its test: the request follows whatever the limiter says
GS_DoubleCheck_Skip(w) ==
    /\ pc[w] = "gs_L159"
    /\ Goto(w, "gs_L167")
    /\ UNCHANGED <<slp, limiterVars, gsVars, timed_out, poolVars>>

\* line 159, first conjunct: rate_limiter.is_rate_limited()
GS_DoubleCheck(w) ==
    /\ pc[w] = "gs_L159"
    /\ Goto(w, IF is_rate_limited THEN "gs_L159b" ELSE "gs_L167")
    /\ UNCHANGED <<slp, limiterVars, gsVars, timed_out, poolVars>>

\* line 167: the request is sent
GS_Send(w) ==
    /\ pc[w] = "gs_L167"
    /\ Goto(w, "gs_calling")
    /\ timed_out' = timed_out \ {w}
    /\ calls' = [calls EXCEPT ![w] = Min(calls[w] + 1, MaxRetries + 1)]
    /\ UNCHANGED <<is_429_retrier, attempt, summary, gs_result>>
    /\ UNCHANGED <<slp, limiterVars, poolVars>>

\* line 204 giving up at the first error
RetriesExhausted_AtOnce(a) == a >= 1

\* line 204 with > for >=
RetriesExhausted_Late(a) == a > MaxRetries

\* line 204: if attempt >= self.max_retries
RetriesExhausted(a) == a >= MaxRetries

\* lines 167-175 and 186-210: the answer r to the request.  A well-formed
\* answer gives summary = content.strip(); 429 goes to handle_429_error;
\* anything else raised in the try block (an API error, or the AttributeError /
\* IndexError of a malformed answer at line 175) is counted in attempt and
\* either ends the function (line 206) or sleeps retry_delay (line 210).
GS_Response(w, r) ==
    /\ pc[w] = "gs_calling"
    /\ CASE r \in {"Summary", "Blank"} ->
              /\ Goto(w, "gs_L178")
              /\ summary' = [summary EXCEPT ![w] = Strip(r)]
              /\ UNCHANGED <<slp, is_429_retrier, attempt, gs_result, calls>>
         [] r = "RateLimited" ->
              /\ Goto(w, "h429_L96")
              /\ UNCHANGED <<slp, gsVars>>
         [] r \in {"Malformed", "Error"} ->
              /\ attempt' = [attempt EXCEPT ![w] = attempt[w] + 1]
              /\ IF RetriesExhausted(attempt[w] + 1)
                   THEN /\ gs_result' = [gs_result EXCEPT ![w] = "False"]
                        /\ Goto(w, "gs_L214")
                        /\ UNCHANGED slp
                   ELSE /\ Goto(w, "gs_L210")
                        /\ slp' = [slp EXCEPT ![w] = RetryDelay]
                        /\ UNCHANGED gs_result
              /\ UNCHANGED <<is_429_retrier, summary, calls>>
    /\ UNCHANGED <<limiterVars, timed_out, poolVars>>

\* line 178: if is_429_retrier; else line 184: return True, summary, ""
GS_Success(w) ==
    /\ pc[w] = "gs_L178"
    /\ IF is_429_retrier[w]
         THEN /\ Goto(w, "gs_L181")
              /\ UNCHANGED gs_result
         ELSE /\ Goto(w, "gs_L214")
              /\ gs_result' = [gs_result EXCEPT ![w] = "True"]
    /\ UNCHANGED <<slp, is_429_retrier, attempt, summary, calls>>
    /\ UNCHANGED <<limiterVars, timed_out, poolVars>>

\* lines 182-184: is_429_retrier = False; return True, summary, ""
GS_ClearRetrier(w) ==
    /\ pc[w] = "gs_L182"
    /\ is_429_retrier' = [is_429_retrier EXCEPT ![w] = FALSE]
    /\ gs_result' = [gs_result EXCEPT ![w] = "True"]
    /\ Goto(w, "gs_L214")
    /\ UNCHANGED <<slp, attempt, summary, calls, limiterVars, timed_out, poolVars>>

\* lines 212-216 without the cleanup
FinallyReleases_Never(w) == FALSE

\* line 214: if is_429_retrier and rate_limiter.is_rate_limited()
FinallyReleases(w) == is_429_retrier[w] /\ is_rate_limited

\* lines 212-216: the finally block, on the way out of the function
GS_Finally(w) ==
    /\ pc[w] = "gs_L214"
    /\ Goto(w, IF FinallyReleases(w) THEN "gs_L216" ELSE "pf_L250")
    /\ UNCHANGED <<slp, limiterVars, gsVars, timed_out, poolVars>>

\* lines 193-197 without line 194: the flag is not set
H429_BackoffDone_NoFlag(w) ==
    /\ pc[w] = "h429_L100"
    /\ slp[w] = 0
    /\ Goto(w, "gs_L145")
    /\ UNCHANGED <<slp, gsVars, limiterVars, timed_out, poolVars>>

\* handle_429_error lines 100-101 and generate_summary lines 193-197: the
\* retrier's sleep is over; is_429_retrier = True; continue
H429_BackoffDone(w) ==
    /\ pc[w] = "h429_L100"
    /\ slp[w] = 0
    /\ is_429_retrier' = [is_429_retrier EXCEPT ![w] = TRUE]
    /\ Goto(w, "gs_L145")
    /\ UNCHANGED <<slp, attempt, summary, gs_result, calls>>
    /\ UNCHANGED <<limiterVars, timed_out, poolVars>>

\* line 210 followed by the request at once, not by the next iteration
GS_RetrySleepDone_Direct(w) ==
    /\ pc[w] = "gs_L210"
    /\ slp[w] = 0
    /\ Goto(w, "gs_L167")
    /\ UNCHANGED <<slp, limiterVars, gsVars, timed_out, poolVars>>

\* line 210: time.sleep(self.retry_delay) is over; next iteration
GS_RetrySleepDone(w) ==
    /\ pc[w] = "gs_L210"
    /\ slp[w] = 0
    /\ Goto(w, "gs_L145")
    /\ UNCHANGED <<slp, limiterVars, gsVars, timed_out, poolVars>>

\* ---------------------------------------------------- process_file
\* the thread's task is over: the future holds b, the thread is idle again
Finish(w, b) ==
    /\ pc' = [pc EXCEPT ![w] = "idle"]
    /\ future' = [future EXCEPT ![item[w]] = Bool(b)]
    /\ item' = [item EXCEPT ![w] = 0]
    /\ data' = [data EXCEPT ![w] = NoData]
    /\ is_429_retrier' = [is_429_retrier EXCEPT ![w] = FALSE]
    /\ attempt' = [attempt EXCEPT ![w] = 0]
    /\ summary' = [summary EXCEPT ![w] = ""]
    /\ gs_result' = [gs_result EXCEPT ![w] = "none"]
    /\ timed_out' = timed_out \ {w}
    /\ calls' = [calls EXCEPT ![w] = 0]
    /\ UNCHANGED <<op, slp, current_retrier, retval>>

\* a pool thread takes the next queued task (ThreadPoolExecutor's work queue).
\* An idle thread has no state of its own and the limiter holds nothing of it,
\* so which idle thread takes the task makes no difference: it is the one
\* created first.
Dispatch(w) ==
    /\ pc[w] = "idle"
    /\ \A v \in Workers : v < w => pc[v] # "idle"
    /\ queue # << >>
    /\ item' = [item EXCEPT ![w] = Head(queue)]
    /\ queue' = Remaining(queue)
    /\ future' = [future EXCEPT ![Head(queue)] = "running"]
    /\ Goto(w, "pf_L231")
    /\ UNCHANGED <<slp, limiterVars, gsVars, timed_out>>
    /\ UNCHANGED <<data, results, main_pc, file, temp, file0>>

\* lines 231-244 and 137-140: read the file; skip it if it has a summary,
\* fail if it has no content, else enter generate_summary
PF_Read(w) ==
    /\ pc[w] = "pf_L231"
    /\ LET d == Load(file[item[w]])
       IN  IF HasSummary(d)
             THEN Finish(w, TRUE)
             ELSE IF ~HasContent(d)
                    THEN Finish(w, FALSE)
                    ELSE /\ data' = [data EXCEPT ![w] = d]
                         /\ Goto(w, "gs_L145")
                         /\ is_429_retrier' = [is_429_retrier EXCEPT ![w] = FALSE]
                         /\ attempt' = [attempt EXCEPT ![w] = 0]
                         /\ calls' = [calls EXCEPT ![w] = 0]
                         /\ UNCHANGED <<summary, gs_result, timed_out, item, future>>
    /\ UNCHANGED <<slp, limiterVars, queue, results, main_pc, file, temp, file0>>

\* lines 248-252: if not success or not summary: return False
PF_AfterSummary(w) ==
    /\ pc[w] = "pf_L250"
    /\ IF gs_result[w] # "True" \/ summary[w] = ""
         THEN Finish(w, FALSE)
         ELSE /\ Goto(w, "pf_L255")
              /\ UNCHANGED <<gsVars, timed_out, item, data, future>>
    /\ UNCHANGED <<slp, limiterVars, queue, results, main_pc, file, temp, file0>>

\* lines 255-258: data['summary'] = summary; open(temp_file, 'w') creates or
\* truncates <path>.temp; if it raises, lines 267-269 return False
PF_OpenTemp(w, ok) ==
    /\ pc[w] = "pf_L255"
    /\ IF ok
         THEN /\ data' = [data EXCEPT ![w] = Updated(data[w], summary[w])]
              /\ temp' = [temp EXCEPT ![item[w]] = Truncated]
              /\ Goto(w, "pf_L259")
              /\ UNCHANGED <<gsVars, timed_out, item, future>>
         ELSE /\ Finish(w, FALSE)
              /\ UNCHANGED temp
    /\ UNCHANGED <<slp, limiterVars, queue, results, main_pc, file, file0>>

\* line 259 with the exception of json.dump swallowed: the rename goes ahead
PF_DumpTemp_Unchecked(w, ok) ==
    /\ pc[w] = "pf_L259"
    /\ temp' = [temp EXCEPT ![item[w]] = IF ok THEN Dump(data[w]) ELSE @]
    /\ Goto(w, "pf_L262")
    /\ UNCHANGED <<gsVars, timed_out, item, data, future>>
    /\ UNCHANGED <<slp, limiterVars, queue, results, main_pc, file, file0>>

\* line 259: json.dump writes the object and the file is closed; if it
\* raises, the temp file stays as far as it was written and lines 267-269
\* return False
PF_DumpTemp(w, ok) ==
    /\ pc[w] = "pf_L259"
    /\ IF ok
         THEN /\ temp' = [temp EXCEPT ![item[w]] = Dump(data[w])]
              /\ Goto(w, "pf_L262")
              /\ UNCHANGED <<gsVars, timed_out, item, data, future>>
         ELSE /\ Finish(w, FALSE)
              /\ UNCHANGED temp
    /\ UNCHANGED <<slp, limiterVars, queue, results, main_pc, file, file0>>

\* line 262 with a rename that raises after it has replaced the file
PF_Replace_Torn(w, ok) ==
    /\ pc[w] = "pf_L262"
    /\ file' = [file EXCEPT ![item[w]] = temp[item[w]]]
    /\ temp' = [temp EXCEPT ![item[w]] = NoData]
    /\ Finish(w, ok)
    /\ UNCHANGED <<slp, limiterVars, queue, results, main_pc, file0>>

\* lines 262-265: os.replace(temp_file, file_path); return True; if it
\* raises, nothing is renamed and lines 267-269 return False
PF_Replace(w, ok) ==
    /\ pc[w] = "pf_L262"
    /\ IF ok
         THEN /\ file' = [file EXCEPT ![item[w]] = temp[item[w]]]
              /\ temp' = [temp EXCEPT ![item[w]] = NoData]
              /\ Finish(w, TRUE)
         ELSE /\ Finish(w, FALSE)
              /\ UNCHANGED <<file, temp>>
    /\ UNCHANGED <<slp, limiterVars, queue, results, main_pc, file0>>

\* ----------------------------------------------- process_directory
\* lines 302-312 with a failed task ending the loop
Collect_AbortOnFailure(i) ==
    /\ main_pc = "collect"
    /\ future[i] \in {"True", "False"}
    /\ results' = IF future[i] = "True"
                    THEN [results EXCEPT !.success = @ + 1]
                    ELSE [results EXCEPT !.failed = @ + 1]
    /\ future' = [future EXCEPT ![i] = "counted"]
    /\ main_pc' = IF future[i] = "True" THEN main_pc ELSE "returned"
    /\ UNCHANGED <<limiterVars, callVars, gsVars, timed_out>>
    /\ UNCHANGED <<item, data, queue, file, temp, file0>>

\* lines 302-312: as_completed yields a finished future; it is counted
Collect(i) ==
    /\ main_pc = "collect"
    /\ future[i] \in {"True", "False"}
    /\ results' = IF future[i] = "True"
                    THEN [results EXCEPT !.success = @ + 1]
                    ELSE [results EXCEPT !.failed = @ + 1]
    /\ future' = [future EXCEPT ![i] = "counted"]
    /\ UNCHANGED <<limiterVars, callVars, gsVars, timed_out>>
    /\ UNCHANGED <<item, data, queue, main_pc, file, temp, file0>>

\* lines 314-315: every future was yielded; return results
PD_Return ==
    /\ main_pc = "collect"
    /\ \A i \in Items : future[i] = "counted"
    /\ main_pc' = "returned"
    /\ UNCHANGED <<limiterVars, callVars, gsVars, timed_out>>
    /\ UNCHANGED <<item, data, queue, future, results, file, temp, file0>>

\* lines 316-331: the program is run again on the same directory, in a new
\* process (a new rate_limiter, a new pool); the files, temp files included,
\* are as the run before left them
PD_Rerun ==
    /\ main_pc = "returned"
    /\ time_since_last_call' = ApiCallInterval
    /\ interval_lock' = NoThread
    /\ rate_limit_event' = TRUE
    /\ waiters' = {}
    /\ retrier_lock' = NoThread
    /\ retrier_id' = NoThread
    /\ pc' = [w \in Workers |-> "idle"]
    /\ op' = [w \in Workers |-> "none"]
    /\ slp' = [w \in Workers |-> 0]
    /\ current_retrier' = [w \in Workers |-> NoThread]
    /\ retval' = [w \in Workers |-> NoValue]
    /\ is_429_retrier' = [w \in Workers |-> FALSE]
    /\ attempt' = [w \in Workers |-> 0]
    /\ summary' = [w \in Workers |-> ""]
    /\ gs_result' = [w \in Workers |-> "none"]
    /\ timed_out' = {}
    /\ calls' = [w \in Workers |-> 0]
    /\ item' = [w \in Workers |-> 0]
    /\ data' = [w \in Workers |-> NoData]
    /\ queue' = file_paths
    /\ future' = [i \in Items |-> "queued"]
    /\ results' = [total |-> Len(file_paths), success |-> 0, failed |-> 0]
    /\ main_pc' = "collect"
    /\ file0' = file
    /\ UNCHANGED <<file, temp>>

\* ---------------------------------------------------- specifications
LimiterStep(w) ==
    \/ WaitForInterval(w)
    \/ WaitForIntervalWake(w)
    \/ WaitForRelease(w)
    \/ WaitForReleaseWoken(w)
    \/ WaitForReleaseTimeout(w)
    \/ TryBecomeRetrier(w)
    \/ TryBecomeRetrierSetId(w)
    \/ ReleaseRateLimit(w)
    \/ ReleaseRateLimitSet(w)

WorkerStep(w) ==
    \/ Dispatch(w)
    \/ PF_Read(w)
    \/ PF_AfterSummary(w)
    \/ \E ok \in BOOLEAN : PF_OpenTemp(w, ok)
    \/ \E ok \in BOOLEAN : PF_DumpTemp(w, ok)
    \/ \E ok \in BOOLEAN : PF_Replace(w, ok)
    \/ GetRetrierId(w)
    \/ GS_CheckLimited(w)
    \/ GS_WaitTimedOut(w)
    \/ GS_DoubleCheck(w)
    \/ GS_Send(w)
    \/ \E r \in Responses : GS_Response(w, r)
    \/ GS_Success(w)
    \/ GS_ClearRetrier(w)
    \/ GS_Finally(w)
    \/ H429_BackoffDone(w)
    \/ GS_RetrySleepDone(w)

Next ==
    \/ \E w \in Workers : LimiterStep(w)
    \/ \E w \in Workers : WorkerStep(w)
    \/ \E i \in Items : Collect(i)
    \/ PD_Return
    \/ PD_Rerun
    \/ Tick

\* the whole program: process_directory over the queued files
Spec == Init /\ [][Next]_vars

\* the scheduler lets every thread that can run do so eventually, the clock
\* advances, and the main thread collects finished futures and returns
Fairness ==
    /\ \A w \in Workers : WF_vars(LimiterStep(w) \/ WorkerStep(w))
    /\ WF_vars(Tick)
    /\ WF_vars((\E i \in Items : Collect(i)) \/ PD_Return)

\* the whole program under fair scheduling
SpecFair == Spec /\ Fairness

\* fair scheduling that is also fair to a thread blocked at a lock: a thread
\* that could run again and again (the lock it wants is free again and again)
\* does run eventually
StrongFairness ==
    /\ \A w \in Workers : SF_vars(LimiterStep(w) \/ WorkerStep(w))
    /\ WF_vars(Tick)
    /\ WF_vars((\E i \in Items : Collect(i)) \/ PD_Return)

\* one call of process_directory, from the submits to its return
NextOneRun ==
    \/ \E w \in Workers : LimiterStep(w)
    \/ \E w \in Workers : WorkerStep(w)
    \/ \E i \in Items : Collect(i)
    \/ PD_Return
    \/ Tick

\* one call of process_directory under scheduling with fair locks
SpecOneRunFair == Init /\ [][NextOneRun]_vars /\ StrongFairness

\* three pool threads, each inside the generate_summary call of its own
\* file (process_file around the call does not touch the limiter and is left
\* out: a thread ends at its return to line 248), against an endpoint that
\* answers a request with a summary or, not more than MaxRateLimited times
\* for one thread, with 429
Answers(w) ==
    IF calls[w] <= MaxRateLimited THEN {"Summary", "RateLimited"} ELSE {"Summary"}

InitThree ==
    /\ InitLimiter
    /\ InitLocals("gs_L145")
    /\ queue = <<>>
    /\ future = [i \in Items |-> "running"]
    /\ results = [total |-> Len(file_paths), success |-> 0, failed |-> 0]
    /\ main_pc = "collect"
    /\ file = [i \in Items |->
                 [summary |-> Absent, content |-> "text", title |-> "t",
                  fmt |-> "compact"]]
    /\ temp = [i \in Items |-> NoData]
    /\ file0 = file

GenerateSummaryStep(w) ==
    \/ GetRetrierId(w)
    \/ GS_CheckLimited(w)
    \/ GS_WaitTimedOut(w)
    \/ GS_DoubleCheck(w)
    \/ GS_Send(w)
    \/ \E r \in Answers(w) : GS_Response(w, r)
    \/ GS_Success(w)
    \/ GS_ClearRetrier(w)
    \/ GS_Finally(w)
    \/ H429_BackoffDone(w)

NextThree ==
    \/ \E w \in Workers : LimiterStep(w)
    \/ \E w \in Workers : GenerateSummaryStep(w)
    \/ Tick

\* three concurrent calls of generate_summary under scheduling with fair locks
SpecThree ==
    /\ InitThree
    /\ [][NextThree]_vars
    /\ \A w \in Workers : SF_vars(LimiterStep(w) \/ GenerateSummaryStep(w))
    /\ WF_vars(Tick)

\* the limiter alone, its methods called in any order by free clients
InitClients ==
    /\ InitLimiter
    /\ InitLocals("api")
    /\ queue = << >>
    /\ future = [i \in Items |-> "counted"]
    /\ results = [total |-> 0, success |-> 0, failed |-> 0]
    /\ main_pc = "returned"
    /\ file = [i \in Items |-> NoData]
    /\ temp = [i \in Items |-> NoData]
    /\ file0 = file

\* a free client calls one of the limiter's methods
ClientCalls(w, site) ==
    /\ pc[w] = "api"
    /\ pc' = [pc EXCEPT ![w] = site]
    /\ retval' = [retval EXCEPT ![w] = NoValue]
    /\ UNCHANGED <<op, slp, current_retrier>>
    /\ UNCHANGED <<limiterVars, gsVars, timed_out, poolVars>>

NextLimiter ==
    \/ \E w \in Workers : LimiterStep(w)
    \/ \E w \in Workers : \E site \in ClientSites : ClientCalls(w, site)
    \/ Tick

SpecLimiter == InitClients /\ [][NextLimiter]_vars

TypeOK ==
    /\ time_since_last_call \in 0..ApiCallInterval
    /\ interval_lock \in Workers \cup {NoThread}
    /\ rate_limit_event \in BOOLEAN
    /\ waiters \subseteq Workers
    /\ retrier_lock \in Workers \cup {NoThread}
    /\ retrier_id \in Workers \cup {NoThread}
    /\ op \in [Workers -> {"none", "wi_L47", "wr_L59", "tbr_L76", "rrl_L86"}]
    /\ slp \in [Workers -> 0..RetryDelay]
    /\ current_retrier \in [Workers -> Workers \cup {NoThread}]
    /\ retval \in [Workers -> {"none", "wi", "wr", "tbr", "rrl"} \X {"None", "True", "False"}]
    /\ is_429_retrier \in [Workers -> BOOLEAN]
    /\ attempt \in [Workers -> 0..MaxRetries]
    /\ summary \in [Workers -> {"", NewSummary}]
    /\ gs_result \in [Workers -> {"none", "True", "False"}]
    /\ timed_out \subseteq Workers
    /\ calls \in [Workers -> 0..(MaxRetries + 1)]
    /\ item \in [Workers -> Items \cup {0}]
    /\ future \in [Items -> {"queued", "running", "True", "False", "counted"}]
    /\ results.success + results.failed <= results.total

\* ------------------------------------------------------------ claims
\* thread w is at a statement of generate_summary or handle_429_error
InGenerateSummary(w) ==
    pc[w] \in {"gs_L145", "gs_L148", "gs_L149", "gs_L152", "gs_L154", "gs_L159",
               "gs_L159b", "gs_L167", "gs_calling", "gs_L178", "gs_L181",
               "gs_L182", "gs_L210", "gs_L214", "gs_L216",
               "h429_L96", "h429_L100", "h429_L105"}

\* the step in which w's wait_for_interval writes last_call_time (line 50)
RecordsCallTime(w) ==
    /\ pc[w] \in SitesWI
    /\ op[w] \in {"none", "wi_L47"}
    /\ time_since_last_call' = 0
    /\ op'[w] = "none"
    /\ \/ pc'[w] # pc[w]
       \/ op[w] = "wi_L47"

\* C1: every timestamp written to last_call_time is at least the interval
\* later than the one written before it (so, the clock being monotonic, any
\* two recorded timestamps are at least the interval apart); a thread that
\* sleeps between its read and its write of last_call_time holds
\* interval_lock, and nobody else writes last_call_time meanwhile.
C1_IntervalBetweenCalls ==
    /\ [](\A w \in Workers : op[w] = "wi_L47" => interval_lock = w)
    /\ [][\A w \in Workers :
            /\ RecordsCallTime(w) => time_since_last_call >= ApiCallInterval
            /\ (op[w] = "wi_L47" /\ op'[w] = "wi_L47")
                  => time_since_last_call' >= time_since_last_call]_vars

\* a thread sleeps in wait_for_interval while another one is at line 145,
\* kept out by interval_lock
C1_Witness ==
    \E w, v \in Workers :
        /\ w # v
        /\ op[w] = "wi_L47" /\ slp[w] > 0
        /\ pc[v] = "gs_L145" /\ op[v] = "none"
        /\ pc[w] = "gs_L145"

\* thread w holds leader status: it is the recorded retrier, or it is in the
\* retrier's backoff sleep of handle_429_error
IsLeader(w) == retrier_id = w \/ pc[w] = "h429_L100"

\* C2 as stated: at every instant at most one thread holds leader status, and
\* is_rate_limited() is true if and only if retrier_id is not None.
C2_Original ==
    /\ Cardinality({w \in Workers : IsLeader(w)}) <= 1
    /\ is_rate_limited <=> retrier_id # NoThread

\* C2, amended: at every instant at most one thread holds leader status and a
\* recorded retrier implies is_rate_limited(); the converse holds whenever no
\* thread is between the two writes of try_become_retrier (lines 75-76) or of
\* release_rate_limit (lines 85-86), that is, whenever retrier_lock is free.
C2_LeaderInvariant ==
    /\ Cardinality({w \in Workers : IsLeader(w)}) <= 1
    /\ retrier_id # NoThread => is_rate_limited
    /\ retrier_lock = NoThread => (is_rate_limited <=> retrier_id # NoThread)
    /\ \A w \in Workers : IsLeader(w) => is_rate_limited

\* a leader is recorded while another thread, answered 429 too, was refused
C2_Witness ==
    \E w, v \in Workers :
        /\ w # v
        /\ retrier_id = w
        /\ pc[v] = "h429_L105"
        /\ retrier_lock = NoThread

\* C3: a thread that is outside generate_summary (it has returned, with
\* success or with failure, or has not entered) is never the recorded
\* retrier; in particular the thread that has just returned is not.
C3_NoLeaderOutside ==
    \A w \in Workers :
        /\ retrier_id = w => InGenerateSummary(w)
        /\ pc[w] = "pf_L250" => retrier_id # w /\ retrier_lock # w

\* a thread that was the retrier has returned failure and released in the
\* finally block
C3_Witness ==
    \E w \in Workers :
        /\ pc[w] = "pf_L250"
        /\ gs_result[w] = "False"
        /\ is_429_retrier[w]
        /\ retrier_id = NoThread

\* C4 as stated: a thread other than the recorded retrier never sends a
\* request (line 167) in a state where is_rate_limited() is true.
C4_FollowersSuspended ==
    [][\A w \in Workers :
         (pc[w] = "gs_L167" /\ pc'[w] = "gs_calling")
            => (~is_rate_limited \/ retrier_id = w)]_vars

\* thread w takes a step
Moves(w) == pc'[w] # pc[w] \/ op'[w] # op[w]

\* C5: the step of release_rate_limit that sets the event (line 86) leaves no
\* thread blocked in rate_limit_event.wait: each one can return at once, returns
\* True and can no longer time out; and the retrier's release_rate_limit and
\* its line 86 are enabled whatever the other threads do, also while one of
\* them sleeps in wait_for_interval holding interval_lock.
C5_ReleaseWakesFollowers ==
    /\ [][\A w \in Workers :
            /\ (op[w] = "rrl_L86" /\ op'[w] = "none")
                  => (rate_limit_event' /\ waiters' = {})
            /\ (op[w] = "wr_L59" /\ w \notin waiters /\ op'[w] = "none")
                  => retval'[w] = <<"wr", "True">>]_vars
    /\ [](\A w \in Workers :
            /\ (op[w] = "wr_L59" /\ w \notin waiters)
                  => (ENABLED WaitForReleaseWoken(w)
                      /\ ~ENABLED WaitForReleaseTimeout(w))
            /\ (Calls(w, SitesRRL) /\ retrier_id = w /\ is_rate_limited)
                  => ENABLED ReleaseRateLimit(w)
            /\ op[w] = "rrl_L86" => ENABLED ReleaseRateLimitSet(w))

\* the retrier has released; a follower that was blocked is woken and has not
\* run yet; a third thread sleeps in wait_for_interval holding interval_lock
C5_Witness ==
    \E w, v, u \in Workers :
        /\ retval[w] = <<"rrl", "True">>
        /\ op[v] = "wr_L59" /\ v \notin waiters
        /\ op[u] = "wi_L47" /\ interval_lock = u /\ slp[u] > 0

\* C6 as stated: a thread whose wait at line 152 timed out goes on to the
\* interval wait and to its request; it does not come to wait for the release
\* again before it has sent a request.
C6_TimeoutProceeds ==
    \A w \in timed_out : pc[w] # "gs_L152"

\* C7: try_become_retrier(id) called at line 96.  Not rate limited: the event
\* is cleared under retrier_lock, then id is recorded and True returned, and
\* nothing else touches the event, retrier_id or the lock in between.  Rate
\* limited and id the retrier: True, nothing changed.  Rate limited and another
\* retrier: False, nothing changed.  At most one thread is ever between the two
\* writes, so of the callers racing from a state that is not rate limited one
\* takes the first branch.
C7_TryBecomeRetrier ==
    /\ [][\A w \in Workers :
            /\ (pc[w] = "h429_L96" /\ op[w] = "none" /\ Moves(w))
                  => IF ~is_rate_limited
                       THEN /\ is_rate_limited' /\ retrier_lock' = w
                            /\ op'[w] = "tbr_L76" /\ retrier_id' = retrier_id
                       ELSE /\ pc'[w] = IF retrier_id = w THEN "h429_L100"
                                                         ELSE "h429_L105"
                            /\ UNCHANGED limiterVars
            /\ (op[w] = "tbr_L76" /\ op'[w] = "none")
                  => /\ retrier_id' = w /\ is_rate_limited'
                     /\ retrier_lock' = NoThread /\ pc'[w] = "h429_L100"
            /\ (op[w] = "tbr_L76" /\ op'[w] = "tbr_L76")
                  => UNCHANGED <<rate_limit_event, retrier_id, retrier_lock>>]_vars
    /\ [](Cardinality({w \in Workers : op[w] = "tbr_L76"}) <= 1)

\* one thread is between the two writes of try_become_retrier while another,
\* answered 429 too, is calling it
C7_Witness ==
    \E w, v \in Workers :
        /\ w # v
        /\ op[w] = "tbr_L76"
        /\ pc[v] = "h429_L96" /\ op[v] = "none"

\* C8: release_rate_limit(id) called by a free client.  With id the retrier it
\* clears retrier_id, then sets the event and returns True; otherwise it
\* returns False and leaves the event, retrier_id and last_call_time as they
\* were.  A thread stops being the retrier only by its own call.
C8_ReleaseOnlyByLeader ==
    [][\A w \in Workers :
         /\ (pc[w] = "api_rrl" /\ op[w] = "none" /\ Moves(w))
               => IF is_rate_limited /\ retrier_id = w
                    THEN /\ retrier_id' = NoThread /\ op'[w] = "rrl_L86"
                         /\ UNCHANGED time_since_last_call
                    ELSE /\ retval'[w] = <<"rrl", "False">>
                         /\ UNCHANGED <<rate_limit_event, retrier_id,
                                        time_since_last_call>>
         /\ (op[w] = "rrl_L86" /\ op'[w] = "none")
               => /\ rate_limit_event' /\ retrier_id' = NoThread
                  /\ retval'[w] = <<"rrl", "True">>
                  /\ UNCHANGED time_since_last_call
         /\ (retrier_id = w /\ retrier_id' # w)
               => (pc[w] = "api_rrl" /\ op'[w] = "rrl_L86")]_vars

\* a thread that is not the retrier has called release_rate_limit while
\* another one is, and got False
C8_Witness ==
    \E w, v \in Workers :
        /\ w # v
        /\ retval[w] = <<"rrl", "False">>
        /\ retrier_id = v /\ is_rate_limited

\* C9: wait_for_rate_limit_release called by a free client returns True at
\* once when the event is set and blocks otherwise; a blocked thread returns
\* True exactly when the event was set while it was blocked, and False only
\* having been a waiter all along, which implies the limiter was rate limited
\* all along; no step of the method changes the event or retrier_id.
C9_WaitForRelease ==
    /\ [](\A w \in waiters : op[w] = "wr_L59" /\ is_rate_limited)
    /\ [][\A w \in Workers :
            /\ (pc[w] = "api_wr" /\ op[w] = "none" /\ Moves(w))
                  => IF rate_limit_event
                       THEN retval'[w] = <<"wr", "True">> /\ pc'[w] = "api"
                       ELSE op'[w] = "wr_L59" /\ w \in waiters'
            /\ (op[w] = "wr_L59" /\ op'[w] = "none")
                  => retval'[w] = <<"wr", Bool(w \notin waiters)>>
            /\ (w \in waiters /\ rate_limit_event') => w \notin waiters'
            /\ (pc[w] = "api_wr" /\ Moves(w))
                  => UNCHANGED <<rate_limit_event, retrier_id>>]_vars

\* one client's wait has timed out with the limiter rate limited; later the
\* event was set and another blocked client is woken
C9_Witness ==
    \E w, v \in Workers :
        /\ retval[w] = <<"wr", "False">>
        /\ op[v] = "wr_L59" /\ v \notin waiters /\ rate_limit_event

C11_AttemptCeiling ==
    /\ [][\A w \in Workers :
            /\ GS_Response(w, "RateLimited")
                  => (attempt'[w] = attempt[w] /\ gs_result'[w] = gs_result[w])
            /\ GS_Response(w, "Error")
                  => (attempt'[w] = attempt[w] + 1 /\ calls'[w] = calls[w])
            /\ attempt'[w] # attempt[w]
                  => \/ pc[w] = "gs_calling" /\ attempt'[w] = attempt[w] + 1
                     \/ ~InGenerateSummary(w)' /\ attempt'[w] = 0
            /\ (pc[w] = "pf_L250" /\ gs_result[w] = "False" /\ Moves(w))
                  => future'[item[w]] = "False"]_vars
    /\ [][\A i \in Items :
            (future[i] = "False" /\ future'[i] = "counted")
               => results' = [results EXCEPT !.failed = @ + 1]]_vars
    /\ [](\A w \in Workers :
            /\ attempt[w] <= calls[w]
            /\ attempt[w] <= MaxRetries
            /\ gs_result[w] = "False" <=> attempt[w] = MaxRetries)

\* generate_summary has returned failure after max_retries requests, every
\* one of which ended in an error other than 429
C11_Witness ==
    \E w \in Workers :
        /\ pc[w] = "pf_L250" /\ gs_result[w] = "False"
        /\ calls[w] = MaxRetries /\ attempt[w] = MaxRetries

\* C12 as stated: under fair scheduling every invocation of generate_summary
\* returns to process_file, whatever the endpoint answers.
C12_EveryCallReturns ==
    \A w \in Workers : InGenerateSummary(w) ~> (pc[w] = "pf_L250")

\* the file f holds an object whose summary field is present and not empty
SummaryPresent(f) == f.summary \notin {Absent, ""}

\* thread w is in process_file past the two tests of lines 235 and 239
PastTheTests(w) ==
    InGenerateSummary(w) \/ pc[w] \in {"pf_L250", "pf_L255", "pf_L259", "pf_L262"}

\* C13: process_file on a file that has a summary returns True in its first
\* step, without a request and leaving the limiter, the file and the temp file
\* as they are; no thread is ever past the test of line 235 for such a file,
\* in a first run or in a later one; and a file that has a summary is never
\* written again, so the set of files with a summary never shrinks.
C13_Idempotence ==
    /\ [][\A w \in Workers :
            (pc[w] = "pf_L231" /\ Moves(w) /\ SummaryPresent(file[item[w]]))
               => /\ pc'[w] = "idle" /\ future'[item[w]] = "True"
                  /\ calls'[w] = 0
                  /\ UNCHANGED <<limiterVars, file, temp>>]_vars
    /\ [](\A w \in Workers :
            PastTheTests(w) => ~SummaryPresent(file[item[w]]))
    /\ [][\A i \in Items :
            SummaryPresent(file[i]) => file'[i] = file[i]]_vars

\* a later run has skipped, with success, a file that an earlier run wrote
\* the summary of
C13_Witness ==
    \E i \in Items :
        /\ future[i] = "True"
        /\ file0[i].summary = NewSummary /\ file[i] = file0[i]

\* the file f holds an object whose content field is missing or empty
ContentMissing(f) == f.content \in {Absent, ""}

\* C14: process_file on a file without a summary and without content returns
\* False in its first step, without a request, without a call of the limiter
\* (wait_for_interval included) and leaving the file and the temp file as they
\* are; no thread is ever past the test of line 239 for such a file.
C14_MissingContentFails ==
    /\ [][\A w \in Workers :
            (/\ pc[w] = "pf_L231" /\ Moves(w)
             /\ ~SummaryPresent(file[item[w]])
             /\ ContentMissing(file[item[w]]))
               => /\ pc'[w] = "idle" /\ future'[item[w]] = "False"
                  /\ calls'[w] = 0
                  /\ UNCHANGED <<limiterVars, file, temp>>]_vars
    /\ [](\A w \in Workers :
            PastTheTests(w) => ~ContentMissing(file[item[w]]))

\* process_file has returned False for a file that has neither a summary nor
\* content, while another thread is at work in generate_summary
C14_Witness ==
    \E i \in Items :
        /\ future[i] = "False"
        /\ ~SummaryPresent(file[i]) /\ ContentMissing(file[i])
        /\ file[i] = file0[i]
        /\ \E w \in Workers : InGenerateSummary(w)

\* C15: in every state, so wherever the process may be killed, the file at the
\* item's path is the text the run found there or the complete text of the
\* object with the summary set, never a truncated one; the path changes only in
\* the os.replace of the thread that works on the item, and to the temp file
\* that json.dump has written completely and closed.
C15_AtomicWrite ==
    /\ [](\A i \in Items :
            /\ file[i].fmt # "truncated"
            /\ \/ file[i] = file0[i]
               \/ /\ file[i].fmt = "indent2"
                  /\ file[i].summary = NewSummary
                  /\ file[i].content = file0[i].content
                  /\ file[i].title = file0[i].title)
    /\ [][\A i \in Items :
            file'[i] # file[i]
               => \E w \in Workers :
                     /\ pc[w] = "pf_L262" /\ item[w] = i
                     /\ temp[i].fmt = "indent2"
                     /\ file'[i] = temp[i]]_vars

\* a thread is between open(temp_file, 'w') and the end of json.dump: the
\* temp file is truncated and the file at the item's path is as it was
C15_Witness ==
    \E w \in Workers :
        /\ pc[w] = "pf_L259"
        /\ temp[item[w]] = Truncated
        /\ file[item[w]] = file0[item[w]]

\* C16: a step in which process_file returns False leaves every file as it
\* is, and the file of its item is the one the run found; so is the file of
\* every task whose future holds False.  A later run is told nothing of the
\* failure: the item is queued again, and the thread that takes it reads the
\* file and, finding content and no summary, enters generate_summary with
\* attempt 0, whatever temp file the failure left.
C16_FailureLeavesRecord ==
    /\ [][\A w \in Workers :
            /\ (pc[w] # "idle" /\ pc'[w] = "idle" /\ future'[item[w]] = "False")
                  => (file' = file /\ file[item[w]] = file0[item[w]])
            /\ (/\ pc[w] = "pf_L231" /\ Moves(w)
                /\ ~SummaryPresent(file[item[w]])
                /\ ~ContentMissing(file[item[w]]))
                  => /\ pc'[w] = "gs_L145"
                     /\ attempt'[w] = 0 /\ calls'[w] = 0
                     /\ data'[w].content = file[item[w]].content]_vars
    /\ [](\A i \in Items : future[i] = "False" => file[i] = file0[i])
    /\ [][main_pc = "returned" /\ main_pc' = "collect"
             => (file' = file /\ file0' = file /\ queue' = file_paths)]_vars

\* a later run is in generate_summary for an item whose temp file a failed
\* write or rename of an earlier run left behind
C16_Witness ==
    \E w \in Workers :
        /\ pc[w] = "gs_calling"
        /\ temp[item[w]] # NoData
        /\ file[item[w]] = file0[item[w]]

\* C17: the rename that ends a successful process_file puts at the item's
\* path an object equal to the one that was there but for its summary field,
\* which is the text generate_summary returned, not empty; so the file of a
\* task that returned True for a file found without a summary holds the
\* object found with the summary set and every other field as found.
C17_OnlySummarySet ==
    /\ [][\A w \in Workers :
            (pc[w] = "pf_L262" /\ pc'[w] = "idle" /\ future'[item[w]] = "True")
               => /\ summary[w] # ""
                  /\ Load(file'[item[w]])
                        = [Load(file[item[w]]) EXCEPT !.summary = summary[w]]]_vars
    /\ [](\A i \in Items :
            (future[i] = "True" /\ ~SummaryPresent(file0[i]))
               => Load(file[i]) = [Load(file0[i]) EXCEPT !.summary = NewSummary])

\* process_file has returned True for a file found without the summary field:
\* the file has been rewritten, in json.dump's layout, with the summary set
C17_Witness ==
    \E i \in Items :
        /\ future[i] = "True"
        /\ file0[i].summary = Absent /\ file0[i].fmt = "compact"
        /\ file[i].summary = NewSummary /\ file[i].fmt = "indent2"
        /\ file[i].content = file0[i].content

\* C18: when process_directory has returned, every file found was taken from
\* the queue, its task has ended and was counted, and success + failed =
\* total, with every file found with a summary among the successes.  The end
\* of a task, with False as with True, changes no other future, no other
\* thread, the queue or the main thread; the main thread counts True in
\* success and False in failed, one at a time, and goes on.
C18_RunTotals ==
    /\ [](main_pc = "returned"
            => /\ queue = << >>
               /\ \A i \in Items : future[i] = "counted"
               /\ \A w \in Workers : pc[w] = "idle"
               /\ results.total = Len(file_paths)
               /\ results.success + results.failed = results.total
               /\ results.success
                     >= Cardinality({i \in Items : SummaryPresent(file0[i])}))
    /\ [][\A w \in Workers :
            (pc[w] # "idle" /\ pc'[w] = "idle")
               => /\ future'[item[w]] \in {"True", "False"}
                  /\ \A i \in Items \ {item[w]} : future'[i] = future[i]
                  /\ \A v \in Workers \ {w} : pc'[v] = pc[v]
                  /\ UNCHANGED <<queue, main_pc, results>>]_vars
    /\ [][\A i \in Items :
            (future[i] \in {"True", "False"} /\ future'[i] # future[i])
               => /\ future'[i] = "counted" /\ main_pc' = "collect"
                  /\ results'.total = results.total
                  /\ results'.success
                        = results.success + (IF future[i] = "True" THEN 1 ELSE 0)
                  /\ results'.failed
                        = results.failed + (IF future[i] = "False" THEN 1 ELSE 0)]_vars

\* process_directory has returned {total 2, success 1, failed 1}: one file
\* was written, the other failed and has a temp file left by an exception
C18_Witness ==
    /\ main_pc = "returned"
    /\ results = [total |-> 2, success |-> 1, failed |-> 1]
    /\ \E i, j \in Items :
          /\ temp[i] # NoData /\ file[i] = file0[i] /\ ~SummaryPresent(file[i])
          /\ file0[j].summary = Absent /\ file[j].summary = NewSummary

\* the steps a future takes in one run
FutureSteps ==
    { <<"queued", "running">>, <<"running", "True">>, <<"running", "False">>,
      <<"True", "counted">>, <<"False", "counted">> }

\* C19: in a run a file's future goes once from queued to running, to its
\* result and to counted, so process_file runs once for it; a file is running
\* exactly while one thread holds it, no two threads hold the same file, a
\* thread takes a file only when idle and from the queue, and a file or temp
\* file is written only by the one thread that holds the item.
C19_OneWorkerPerItem ==
    /\ [](\A w, v \in Workers :
            (w # v /\ item[w] # 0) => item[w] # item[v])
    /\ [](\A w \in Workers : item[w] # 0 <=> pc[w] # "idle")
    /\ [](\A i \in Items :
            /\ future[i] = "running" <=> \E w \in Workers : item[w] = i
            /\ future[i] = "queued" <=> \E k \in DOMAIN queue : queue[k] = i)
    /\ [][\A i \in Items :
            /\ future'[i] # future[i]
                  => \/ <<future[i], future'[i]>> \in FutureSteps
                     \/ main_pc = "returned" /\ future'[i] = "queued"
            /\ (temp'[i] # temp[i] \/ file'[i] # file[i])
                  => Cardinality({w \in Workers : item[w] = i}) = 1]_vars
    /\ [][\A w \in Workers :
            (item'[w] # item[w] /\ item'[w] # 0)
               => (pc[w] = "idle" /\ future[item'[w]] = "queued")]_vars

\* two threads are writing the temp files of two different items at once
C19_Witness ==
    \E w, v \in Workers :
        /\ w # v
        /\ pc[w] = "pf_L259" /\ pc[v] = "pf_L259"
        /\ item[w] # item[v]

\* exactly one of the files the run found needs a summary generated: one
\* thread alone ever uses the limiter and the endpoint
SingleWorker ==
    Cardinality({i \in Items :
                    ~SummaryPresent(file0[i]) /\ ~ContentMissing(file0[i])}) = 1

\* C20: with a single thread at work, every answer of 429 makes the thread
\* the retrier (try_become_retrier returns True, the first time by the
\* election and later because it is the retrier already); it then sleeps the
\* whole of retry_delay, once per 429, and goes round the loop, never waiting
\* for a release; it stays the retrier until its own release_rate_limit, which
\* it calls after the request that succeeds (or on giving up); back in
\* process_file the limiter is not rate limited and has no retrier; and when
\* every file has its summary at the end of the run nothing is counted failed.
C20_SingleWorkerBackoff ==
    /\ [](SingleWorker
            => /\ Cardinality({w \in Workers : InGenerateSummary(w)}) <= 1
               /\ \A w \in Workers :
                     /\ pc[w] \notin {"h429_L105", "gs_L152", "gs_L154"}
                     /\ pc[w] = "h429_L100" => (retrier_id = w /\ is_rate_limited)
                     /\ pc[w] = "pf_L250"
                           => (~is_rate_limited /\ retrier_id = NoThread)
               /\ (main_pc = "returned" /\ \A i \in Items : SummaryPresent(file[i]))
                     => results = [total |-> Len(file_paths),
                                   success |-> Len(file_paths), failed |-> 0])
    /\ [][SingleWorker
            => \A w \in Workers :
                  /\ (pc[w] = "gs_calling" /\ pc'[w] = "h429_L96")
                        => UNCHANGED <<attempt, limiterVars>>
                  /\ (pc[w] = "h429_L96" /\ pc'[w] # pc[w])
                        => /\ pc'[w] = "h429_L100" /\ slp'[w] = RetryDelay
                           /\ retrier_id' = w
                  /\ (pc[w] = "h429_L100" /\ pc'[w] # pc[w])
                        => /\ slp[w] = 0 /\ pc'[w] = "gs_L145"
                           /\ is_429_retrier'[w] /\ retrier_id' = w
                  /\ (pc[w] = "gs_L178" /\ is_429_retrier[w] /\ Moves(w))
                        => (pc'[w] = "gs_L181" /\ retrier_id = w)
                  /\ (retrier_id = w /\ retrier_id' # w)
                        => /\ pc[w] \in {"gs_L181", "gs_L216"}
                           /\ retrier_id' = NoThread]_vars

\* the single thread at work was answered 429 at least twice, then its
\* request succeeded, and it is back in process_file with the limiter released
C20_Witness ==
    /\ SingleWorker
    /\ \E w \in Workers :
          /\ pc[w] = "pf_L250" /\ gs_result[w] = "True"
          /\ attempt[w] = 0 /\ calls[w] >= 3
          /\ ~is_rate_limited /\ retrier_id = NoThread

\* C22: at most one thread is in the retrier's sleep of handle_429_error
\* (line 100), and it is the recorded retrier with the limiter rate limited; a
\* thread that calls try_become_retrier while the limiter is rate limited and
\* another thread is the retrier goes to wait for the release (line 105) and
\* is not given the backoff sleep.
C22_SingleBackoff ==
    /\ [](Cardinality({w \in Workers : pc[w] = "h429_L100"}) <= 1)
    /\ [](\A w \in Workers :
            /\ pc[w] = "h429_L100" => (retrier_id = w /\ is_rate_limited)
            /\ pc[w] = "h429_L105" => slp[w] = 0)
    /\ [][\A w \in Workers :
            (/\ pc[w] = "h429_L96" /\ op[w] = "none" /\ Moves(w)
             /\ is_rate_limited /\ retrier_id # w)
               => (pc'[w] = "h429_L105" /\ slp'[w] = 0)]_vars

\* the retrier sleeps its backoff while another thread, answered 429 too, is
\* blocked waiting for the release
C22_Witness ==
    \E w, v \in Workers :
        /\ pc[w] = "h429_L100" /\ slp[w] > 0
        /\ pc[v] = "h429_L105" /\ op[v] = "wr_L59" /\ v \in waiters

\* C23: retrier_id stops naming a thread only in that thread's own
\* release_rate_limit, called at line 181 after its request succeeded or at
\* line 216 after generate_summary gave up; it then becomes None, never
\* another thread; and while a thread is the recorded retrier, whatever it
\* goes through (429 answers, other errors, sleeps, interval waits), the
\* limiter stays rate limited.
C23_LeaderUntilDone ==
    /\ [][\A w \in Workers :
            /\ (retrier_id = w /\ retrier_id' # w)
                  => /\ retrier_id' = NoThread
                     /\ op[w] = "none" /\ op'[w] = "rrl_L86"
                     /\ \/ pc[w] = "gs_L181"
                        \/ pc[w] = "gs_L216" /\ gs_result[w] = "False"
            /\ retrier_id = w => (is_rate_limited /\ is_rate_limited')
            /\ (pc'[w] = "gs_L181" /\ pc[w] # "gs_L181") => pc[w] = "gs_L178"
            /\ (pc'[w] = "gs_L178" /\ pc[w] # "gs_L178") => pc[w] = "gs_calling"
            /\ (pc'[w] = "gs_L216" /\ pc[w] # "gs_L216")
                  => (pc[w] = "gs_L214" /\ gs_result[w] = "False")]_vars
    /\ [](\A w \in Workers :
            retrier_id = w => \A v \in Workers \ {w} : pc[v] # "h429_L100")

\* the recorded retrier, after its backoff, met an error that is not 429 and
\* sleeps the retry delay, still the retrier, while another thread waits
C23_Witness ==
    \E w, v \in Workers :
        /\ retrier_id = w /\ is_429_retrier[w]
        /\ pc[w] = "gs_L210" /\ attempt[w] >= 1
        /\ op[v] = "wr_L59" /\ v \in waiters

\* C24: a thread sends a request only from line 167, which it reaches only
\* from the double check of line 159 having found the limiter not rate
\* limited or itself the retrier, which it reaches only from the check of line
\* 149 with the same finding, which follows only lines 145-148, that is a
\* wait_for_interval that has written last_call_time and returned; and from
\* the request, from either sleep and from either wait for the release the
\* thread's way to line 167 starts again at line 145.
C24_CallPrecededByChecks ==
    [][\A w \in Workers :
         /\ (pc'[w] = "gs_calling" /\ pc[w] # "gs_calling") => pc[w] = "gs_L167"
         /\ (pc'[w] = "gs_L167" /\ pc[w] # "gs_L167")
               => \/ pc[w] = "gs_L159" /\ ~is_rate_limited
                  \/ pc[w] = "gs_L159b" /\ retrier_id = w
         /\ (pc'[w] = "gs_L159b" /\ pc[w] # "gs_L159b") => pc[w] = "gs_L159"
         /\ (pc'[w] = "gs_L159" /\ pc[w] # "gs_L159")
               => /\ pc[w] = "gs_L149"
                  /\ ~is_rate_limited \/ current_retrier[w] = w
         /\ (pc'[w] = "gs_L149" /\ pc[w] # "gs_L149") => pc[w] = "gs_L148"
         /\ (pc'[w] = "gs_L148" /\ pc[w] # "gs_L148")
               => /\ pc[w] = "gs_L145"
                  /\ time_since_last_call' = 0 /\ interval_lock' = NoThread
         /\ (pc[w] \in {"gs_L210", "h429_L100", "h429_L105", "gs_L154"}
             /\ pc'[w] # pc[w])
               => pc'[w] = "gs_L145"
         /\ (pc[w] = "gs_L152" /\ pc'[w] # pc[w])
               => pc'[w] \in {"gs_L145", "gs_L154"}
         /\ (pc[w] = "gs_calling" /\ pc'[w] # pc[w])
               => pc'[w] \in {"gs_L178", "h429_L96", "gs_L210", "gs_L214"}
         /\ (pc[w] = "h429_L96" /\ pc'[w] # pc[w])
               => pc'[w] \in {"h429_L100", "h429_L105"}]_vars

\* a thread whose request ended in an error has slept the retry delay, gone
\* through wait_for_interval and both checks again, and is about to send
C24_Witness ==
    \E w \in Workers :
        /\ pc[w] = "gs_L167" /\ attempt[w] >= 1
        /\ time_since_last_call = 0

\* C26: no thread holds interval_lock and retrier_lock together; the holder
\* of interval_lock is inside wait_for_interval's sleep and the holder of
\* retrier_lock is about to execute the one statement left in its with block,
\* so neither waits for anything but time; and whenever some thread has an
\* item in hand, some such thread can take a step (a wait's timeout included)
\* or is in a sleep that the passing of time ends.
C26_NoDeadlock ==
    /\ \A w \in Workers : ~(interval_lock = w /\ retrier_lock = w)
    /\ \A w \in Workers : interval_lock = w => op[w] = "wi_L47"
    /\ \A w \in Workers : retrier_lock = w => op[w] \in {"tbr_L76", "rrl_L86"}
    /\ (\E w \in Workers : pc[w] # "idle")
          => \E w \in Workers :
                /\ pc[w] # "idle"
                /\ slp[w] > 0 \/ ENABLED (LimiterStep(w) \/ WorkerStep(w))

\* one thread sleeps inside wait_for_interval holding interval_lock, another
\* is blocked at the lock and can take no step, and the third has no item
C26_Witness ==
    \E w, v \in Workers :
        /\ w # v
        /\ interval_lock = w /\ op[w] = "wi_L47" /\ slp[w] > 0
        /\ pc[v] = "gs_L145" /\ op[v] = "none"
        /\ ~ENABLED (LimiterStep(v) \/ WorkerStep(v))
        /\ \A u \in Workers \ {w, v} : pc[u] = "idle"

\* C27: the thread recorded in retrier_id is never at a call of
\* wait_for_rate_limit_release (line 152 or line 105) nor blocked inside one;
\* from the check of line 149 it goes to line 159, from line 159 to the
\* request of line 167, and from try_become_retrier in handle_429_error to
\* the sleep of line 100.
C27_RetrierNeverWaits ==
    /\ [](\A w \in Workers :
            retrier_id = w
               => /\ pc[w] \notin {"gs_L152", "gs_L154", "h429_L105"}
                  /\ op[w] # "wr_L59"
                  /\ w \notin waiters)
    /\ [][\A w \in Workers :
            (retrier_id = w /\ Moves(w))
               => /\ pc[w] = "gs_L149" => pc'[w] = "gs_L159"
                  /\ pc[w] = "gs_L159" => pc'[w] \in {"gs_L159b", "gs_L167"}
                  /\ pc[w] = "gs_L159b" => pc'[w] = "gs_L167"
                  /\ pc[w] = "h429_L96"
                        => (pc'[w] = "h429_L100" /\ slp'[w] = RetryDelay)]_vars

\* the retrier has passed both checks while the limiter is rate limited and
\* is about to send its request; another thread is blocked waiting for it
C27_Witness ==
    \E w, v \in Workers :
        /\ retrier_id = w /\ is_429_retrier[w] /\ is_rate_limited
        /\ pc[w] = "gs_L167"
        /\ pc[v] = "gs_L152" /\ op[v] = "wr_L59" /\ v \in waiters

\* thread w is between a response whose stripped content is empty and the end
\* of process_file
BlankSummary(w) ==
    /\ summary[w] = ""
    /\ \/ pc[w] \in {"gs_L178", "gs_L181", "gs_L182"}
       \/ pc[w] \in {"gs_L214", "pf_L250"} /\ gs_result[w] = "True"

\* C28: a response with blank content takes generate_summary to line 178
\* with summary = "" and attempt as it was, without a sleep; from there the
\* thread goes only forward: the retrier through release_rate_limit (line 181,
\* which removes it from retrier_id and sets the event) and line 182, any
\* thread to the return of True and through the finally block without a
\* second release; process_file then returns False at line 251, and on all
\* that way no request is sent and neither the file nor a temp file is written.
C28_BlankSummary ==
    [][\A w \in Workers :
         /\ GS_Response(w, "Blank")
               => /\ pc'[w] = "gs_L178" /\ summary'[w] = ""
                  /\ attempt'[w] = attempt[w] /\ slp'[w] = 0
         /\ (BlankSummary(w) /\ Moves(w))
               => /\ calls'[w] = calls[w] \/ pc'[w] = "idle"
                  /\ file' = file /\ temp' = temp
                  /\ attempt'[w] = attempt[w] \/ pc'[w] = "idle"
                  /\ pc[w] = "gs_L178"
                        => IF is_429_retrier[w]
                             THEN pc'[w] = "gs_L181"
                             ELSE pc'[w] = "gs_L214" /\ gs_result'[w] = "True"
                  /\ (pc[w] = "gs_L181" /\ op[w] = "none" /\ retrier_id = w)
                        => (retrier_id' = NoThread /\ op'[w] = "rrl_L86")
                  /\ (pc[w] = "gs_L181" /\ op[w] = "rrl_L86")
                        => (rate_limit_event' /\ pc'[w] = "gs_L182")
                  /\ pc[w] = "gs_L181" => pc'[w] \in {"gs_L181", "gs_L182"}
                  /\ pc[w] = "gs_L182"
                        => /\ pc'[w] = "gs_L214" /\ gs_result'[w] = "True"
                           /\ ~is_429_retrier'[w]
                  /\ pc[w] = "gs_L214" => pc'[w] = "pf_L250"
                  /\ pc[w] = "pf_L250"
                        => /\ pc'[w] = "idle"
                           /\ future'[item[w]] = "False"]_vars

\* a thread that was rate limited before has got a blank summary, returned
\* True from generate_summary, and process_file is about to return False
C28_Witness ==
    \E w \in Workers :
        /\ pc[w] = "pf_L250" /\ BlankSummary(w)
        /\ calls[w] >= 2 /\ attempt[w] = 0
        /\ ~is_429_retrier[w] /\ retrier_id # w
        /\ file[item[w]] = file0[item[w]]

\* thread w has executed the test of line 84 inside the release_rate_limit
\* of line 181 or line 216 and has not yet left generate_summary
Released(w) ==
    \/ pc[w] \in {"gs_L181", "gs_L216"} /\ op[w] = "rrl_L86"
    \/ pc[w] = "gs_L182"

\* C29: inside generate_summary, a thread whose is_429_retrier is True and
\* that has not yet released is the recorded retrier of a rate limited
\* limiter; the recorded retrier is in the sleep of the handle_429_error call
\* that elected it or has is_429_retrier True; so at line 178 and at line 214
\* the flag is True exactly for the recorded retrier, and the
\* release_rate_limit of lines 181 and 216 always passes its test of line 84.
C29_FlagAgrees ==
    /\ [](\A w \in Workers :
            /\ (is_429_retrier[w] /\ InGenerateSummary(w) /\ ~Released(w))
                  => (retrier_id = w /\ is_rate_limited)
            /\ retrier_id = w => (pc[w] = "h429_L100" \/ is_429_retrier[w])
            /\ pc[w] \in {"gs_L178", "gs_L214"}
                  => (is_429_retrier[w] <=> retrier_id = w))
    /\ [][\A w \in Workers :
            (pc[w] \in {"gs_L181", "gs_L216"} /\ op[w] = "none" /\ Moves(w))
               => (op'[w] = "rrl_L86" /\ retrier_id = w
                   /\ retrier_id' = NoThread)]_vars

\* the retrier's request has succeeded: its flag is True, it is the recorded
\* retrier, and line 178 is about to send it to release_rate_limit, while
\* another thread that was never retrier is leaving with its flag False
C29_Witness ==
    \E w, v \in Workers :
        /\ pc[w] = "gs_L178" /\ is_429_retrier[w] /\ retrier_id = w
        /\ pc[v] = "gs_L214" /\ ~is_429_retrier[v]

\* a step in which some request is answered by an error (429 or other) or by
\* a response that cannot be read
FailedCall ==
    \E w \in Workers :
        \E r \in {"RateLimited", "Malformed", "Error"} : GS_Response(w, r)

\* C25: under fair scheduling, if from some point on no request fails, then
\* from some point on every thread inside generate_summary gets to its return
\* with success True, the limiter is from some point on never rate limited
\* again, and no thread stays for ever inside wait_for_interval's sleep or
\* inside wait_for_rate_limit_release.
C25_HealthyProgress ==
    (<>[][~FailedCall]_vars)
       => /\ <>[](\A w \in Workers :
                    InGenerateSummary(w)
                       => <>(pc[w] = "pf_L250" /\ gs_result[w] = "True"))
          /\ <>[](~is_rate_limited)
          /\ \A w \in Workers : []<>(op[w] \notin {"wi_L47", "wr_L59"})

\* two threads that were both held up by a rate limit have returned True
\* from generate_summary and the limiter is no longer rate limited
C25_Witness ==
    \E w, v \in Workers :
        /\ w # v
        /\ pc[w] = "pf_L250" /\ gs_result[w] = "True" /\ calls[w] >= 2
        /\ pc[v] = "pf_L250" /\ gs_result[v] = "True" /\ calls[v] >= 2
        /\ ~is_rate_limited /\ retrier_id = NoThread

\* thread w is recorded as the retrier or behaves as one: it is inside the
\* election of lines 75-77, in the retrier's sleep of line 100, or has
\* is_429_retrier set and has not yet released
ActsAsRetrier(w) ==
    \/ retrier_id = w
    \/ op[w] = "tbr_L76"
    \/ pc[w] = "h429_L100"
    \/ is_429_retrier[w] /\ InGenerateSummary(w) /\ ~Released(w)

\* C21: three threads, one generate_summary call each.  No two threads are
\* ever recorded or acting as retrier.  While the limiter is rate limited, a
\* thread that is not the retrier and meets the check of line 149 goes to the
\* wait of line 152, and at line 152 or 105 it blocks in Event.wait; a blocked
\* thread leaves the wait only when the event is set or by its timeout, and
\* after a timeout it starts again at line 145; a thread that is not the
\* retrier reaches the request of line 167 only in a state in which the
\* limiter is not rate limited; and the event is set only by the last step of
\* a release_rate_limit.  Under fair scheduling, the endpoint answering each
\* thread with 429 a bounded number of times only, all three calls return
\* with success True and the limiter is left not rate limited.
C21_ThreeWorkers ==
    /\ [](\A w, v \in Workers :
            (ActsAsRetrier(w) /\ ActsAsRetrier(v)) => w = v)
    /\ [][\A w \in Workers :
            /\ (pc[w] = "gs_L149" /\ is_rate_limited /\ retrier_id # w /\ Moves(w))
                  => pc'[w] = "gs_L152"
            /\ (pc[w] \in {"gs_L152", "h429_L105"} /\ op[w] = "none"
                /\ is_rate_limited /\ Moves(w))
                  => (op'[w] = "wr_L59" /\ w \in waiters' /\ pc'[w] = pc[w])
            /\ (w \in waiters /\ w \notin waiters')
                  => \/ rate_limit_event' /\ \E a \in Workers \ {w} : op[a] = "rrl_L86"
                     \/ ~rate_limit_event' /\ pc'[w] \in {"gs_L154", "gs_L145"}
            /\ (pc[w] = "gs_L154" /\ Moves(w)) => pc'[w] = "gs_L145"
            /\ (pc'[w] = "gs_L167" /\ pc[w] # "gs_L167" /\ retrier_id # w)
                  => /\ ~is_rate_limited
                     /\ retrier_id = NoThread
            /\ (~rate_limit_event /\ rate_limit_event')
                  => \E a \in Workers :
                        /\ op[a] = "rrl_L86" /\ op'[a] = "none"
                        /\ pc[a] \in {"gs_L181", "gs_L216"}]_vars
    /\ <>[](/\ \A w \in Workers : pc[w] = "pf_L250" /\ gs_result[w] = "True"
            /\ ~is_rate_limited /\ retrier_id = NoThread)

\* one thread is the recorded retrier, in its sleep of line 100, and the two
\* others, which met the rate limit at line 149, are blocked in the wait of
\* line 152
C21_Witness ==
    \E a \in Workers :
        /\ retrier_id = a /\ pc[a] = "h429_L100" /\ slp[a] > 0
        /\ \A w \in Workers \ {a} :
              pc[w] = "gs_L152" /\ op[w] = "wr_L59" /\ w \in waiters

=============================================================================
